---------------------------- MODULE Spec2Model ----------------------------
(***************************************************************************)
(* Sobel edge detection: the row-partitioned parallel convolution          *)
(* (convolveParallel), the sequential convolution (convolve) and the       *)
(* gradient combiner (combineAndNormalize).                                *)
(*                                                                         *)
(* Grids are 0-indexed functions, as Go slices are: a grid of H rows and W *)
(* columns is a function 0..H-1 -> (0..W-1 -> number).  Samples are        *)
(* integers: a luminance sample counts in units of 1/MaxVal, and the       *)
(* convolution's sums and products are exact on them, as float64           *)
(* arithmetic is on small dyadic values.                                   *)
(***************************************************************************)
EXTENDS Integers, Sequences, FiniteSets, TLC

\* ------------------------------------------------------------------ bounds
MaxH == 3
MaxW == 2
MaxVal == 1
MaxLit == 1
ExtraWorkers == 1
MaxPartH == 7
MaxPartN == 9
MaxSeqH == 5
MaxSeqW == 5
MaxSeqVal == 2
SampleDen == 10
MaxMainH == 5
MaxMainW == 5
MaxMainVal == 2
MaxCPU == 2
MaxGH == 2
MaxGW == 2
MaxGrad == 2
MaxGradLit == 2
Precision == 11
MaxPixH == 3
MaxPixW == 2
MaxPixN == 4
MaxPix == 2

\* ------------------------------------------------------ program constants
\* The top of the output range: 255 * ...
MaxGray == 255

\* The divisor of the luminance conversion: float64(r) / 65535.0
MaxChannel == 65535

\* ------------------------------------------------------------- Go built-ins
\* len() of a slice
len(s) == Cardinality(DOMAIN s)

\* make([]T, n) of zeroes / make([][]float64, h) with each row make(.., w)
MakeRow(w) == [j \in 0..(w - 1) |-> 0]

MakeGrid(h, w) == [i \in 0..(h - 1) |-> MakeRow(w)]

Min2(a, b) == IF a < b THEN a ELSE b

\* ------------------------------------------------------------ float64 values
\* A finite value is m * 2^e with m = 0 or
\* 2^(Precision-1) <= |m| < 2^Precision: a binary floating-point number with
\* a significand of Precision bits (float64 has 53).  Every operation gives
\* the exact result rounded to the nearest such number, ties to the even
\* significand, as IEEE 754 does.  x/0 is NaN (x = 0) or an infinity.
NaN == [kind |-> "NaN", m |-> 0, e |-> 0]

Inf(sign) == [kind |-> "Inf", m |-> sign, e |-> 0]

Abs(n) == IF n < 0 THEN -n ELSE n

Sign(n) == IF n < 0 THEN -1 ELSE IF n = 0 THEN 0 ELSE 1

\* The number of binary digits of n > 0
RECURSIVE BitLen(_)
BitLen(n) == IF n = 0 THEN 0 ELSE 1 + BitLen(n \div 2)

\* The exact value n * 2^e rounded to Precision bits, ties to even
FRound(n, e) ==
    IF n = 0 THEN [kind |-> "num", m |-> 0, e |-> 0]
    ELSE LET a == Abs(n)
             k == BitLen(a) - Precision
         IN  IF k <= 0
             THEN [kind |-> "num", m |-> Sign(n) * a * 2^(-k), e |-> e + k]
             ELSE LET q == a \div 2^k
                      r == a % 2^k
                      half == 2^(k - 1)
                      up == r > half \/ (r = half /\ q % 2 = 1)
                      q1 == IF up THEN q + 1 ELSE q
                  IN  IF q1 = 2^Precision
                      THEN [kind |-> "num", m |-> Sign(n) * 2^(Precision - 1),
                            e |-> e + k + 1]
                      ELSE [kind |-> "num", m |-> Sign(n) * q1, e |-> e + k]

\* The float64 of an integer
Float(n) == FRound(n, 0)

\* float64 a * b
FMul(a, b) == FRound(a.m * b.m, a.e + b.e)

\* float64 a + b: the operand of smaller exponent is below a quarter of the
\* other's last place when the exponents differ by Precision + 2 or more
FAdd(a, b) ==
    IF a.m = 0 THEN b
    ELSE IF b.m = 0 THEN a
    ELSE LET hi == IF a.e >= b.e THEN a ELSE b
             lo == IF a.e >= b.e THEN b ELSE a
             d == hi.e - lo.e
         IN  IF d >= Precision + 2 THEN hi
             ELSE FRound(hi.m * 2^d + lo.m, lo.e)

\* float64 a - b
FSub(a, b) == FAdd(a, [b EXCEPT !.m = -b.m])

\* float64 a < b
FLess(a, b) == FSub(a, b).m < 0

\* float64 a / b: the quotient to Precision + 1 digits and a sticky digit
FDiv(a, b) ==
    IF b.m = 0
    THEN IF a.m = 0 THEN NaN ELSE Inf(Sign(a.m))
    ELSE IF a.m = 0 THEN Float(0)
    ELSE LET n == Abs(a.m) * 2^(Precision + 1)
             q == n \div Abs(b.m)
             sticky == IF n % Abs(b.m) = 0 THEN 0 ELSE 1
         IN  FRound(Sign(a.m) * Sign(b.m) * (2 * q + sticky),
                    a.e - b.e - (Precision + 1) - 1)

\* The integer square root of n, between lo and hi
RECURSIVE ISqrt(_, _, _)
ISqrt(n, lo, hi) ==
    IF lo = hi THEN lo
    ELSE LET mid == (lo + hi + 1) \div 2
         IN  IF mid * mid <= n THEN ISqrt(n, mid, hi) ELSE ISqrt(n, lo, mid - 1)

\* math.Sqrt(a) for a >= 0: the root to Precision + 1 digits and a sticky digit
Sqrt(a) ==
    IF a.m = 0 THEN Float(0)
    ELSE LET s == IF (a.e - (Precision + 1)) % 2 = 0
                  THEN Precision + 1 ELSE Precision + 2
             n == a.m * 2^s
             r == ISqrt(n, 0, 2^(Precision + 1))
             sticky == IF r * r = n THEN 0 ELSE 1
         IN  FRound(2 * r + sticky, ((a.e - s) \div 2) - 1)

\* The grid of the float64 values of a grid of integers
FloatGrid(g) == [i \in DOMAIN g |-> [j \in DOMAIN g[i] |-> Float(g[i][j])]]

\* --------------------------------------------------------------- the kernels
sobelX == [i \in 0..2 |-> [j \in 0..2 |->
            IF j = 0 THEN (IF i = 1 THEN -2 ELSE -1)
            ELSE IF j = 2 THEN (IF i = 1 THEN 2 ELSE 1) ELSE 0]]

sobelY == [i \in 0..2 |-> [j \in 0..2 |->
            IF i = 0 THEN (IF j = 1 THEN -2 ELSE -1)
            ELSE IF i = 2 THEN (IF j = 1 THEN 2 ELSE 1) ELSE 0]]

\* A 1x1 kernel, a 2x2 (even) kernel, a kernel with no rows and a kernel
\* whose rows are empty: callers may hand any [][]float64 to the convolution.
Kernels == { sobelX, sobelY,
             [i \in 0..0 |-> [j \in 0..0 |-> 2]],
             [i \in 0..1 |-> [j \in 0..1 |-> IF i = j THEN 1 ELSE -1]],
             <<>>,
             [i \in 0..2 |-> <<>>] }

\* The number of nonzero samples of a grid
Lit(g) == Cardinality({c \in UNION {{<<i, j>> : j \in DOMAIN g[i]} : i \in DOMAIN g} :
                          g[c[1]][c[2]] # 0})

\* The grids of h rows and w columns over vals with at most k nonzero samples
SparseGrids(h, w, vals, k) ==
    LET cells == (0..(h - 1)) \X (0..(w - 1))
    IN  UNION { { [i \in 0..(h - 1) |-> [j \in 0..(w - 1) |->
                     IF <<i, j>> \in S THEN f[<<i, j>>] ELSE 0]] :
                  f \in [S -> vals \ {0}] } :
                S \in {T \in SUBSET cells : Cardinality(T) <= k} }

\* The images of 0..MaxH rows and 0..MaxW columns over 0..MaxVal with at most
\* MaxLit nonzero samples (the convolution is linear in the image, and these
\* span every image of the shape)
Images == UNION { SparseGrids(h, w, 0..MaxVal, MaxLit) :
                    h \in 0..MaxH, w \in 0..MaxW }

\* ------------------------------------------------------- padding (parallel)
\* The zero-padding loop of convolveParallel: cell k (row-major) of the image
\* is stored at (i+padHeight, j+padWidth) of the padded grid.
RECURSIVE PadLoop(_, _, _, _, _, _)
PadLoop(padded, img, k, width, padHeight, padWidth) ==
    IF k = len(img) * width THEN padded
    ELSE LET i == k \div width
             j == k % width
         IN  PadLoop([padded EXCEPT ![i + padHeight][j + padWidth] = img[i][j]],
                     img, k + 1, width, padHeight, padWidth)

\* Mutant: the image is stored at (i, j), without the pad offset
PadImageAtOrigin(img, width, padHeight, padWidth) ==
    IF width = 0
    THEN MakeGrid(len(img) + 2 * padHeight, width + 2 * padWidth)
    ELSE PadLoop(MakeGrid(len(img) + 2 * padHeight, width + 2 * padWidth),
                 img, 0, width, 0, 0)

PadImage(img, width, padHeight, padWidth) ==
    IF width = 0
    THEN MakeGrid(len(img) + 2 * padHeight, width + 2 * padWidth)
    ELSE PadLoop(MakeGrid(len(img) + 2 * padHeight, width + 2 * padWidth),
                 img, 0, width, padHeight, padWidth)

\* The inner ii/jj loops: sum += paddedImage[i+ii][j+jj] * kernel[ii][jj],
\* accumulated from 0 in row-major kernel order (k = ii*kWidth + jj).
RECURSIVE KernelSum(_, _, _, _, _, _, _)
KernelSum(padded, krn, kWidth, i, j, k, sum) ==
    IF k = len(krn) * kWidth THEN sum
    ELSE LET ii == k \div kWidth
             jj == k % kWidth
         IN  KernelSum(padded, krn, kWidth, i, j, k + 1,
                       sum + padded[i + ii][j + jj] * krn[ii][jj])

\* Mutant: the kernel is flipped in both directions (true convolution)
CellSumFlipped(padded, krn, kWidth, i, j) ==
    IF kWidth = 0 THEN 0
    ELSE KernelSum(padded,
                   [ii \in DOMAIN krn |-> [jj \in DOMAIN krn[ii] |->
                       krn[len(krn) - 1 - ii][kWidth - 1 - jj]]],
                   kWidth, i, j, 0, 0)

CellSum(padded, krn, kWidth, i, j) ==
    IF kWidth = 0 THEN 0 ELSE KernelSum(padded, krn, kWidth, i, j, 0, 0)

\* Whether some read paddedImage[i+ii][j+jj] of cell (i,j) is out of range
ReadOutOfRange(padded, kHeight, kWidth, i, j) ==
    \E ii \in 0..(kHeight - 1), jj \in 0..(kWidth - 1) :
        \/ (i + ii) \notin DOMAIN padded
        \/ (j + jj) \notin DOMAIN padded[i + ii]


\* ------------------------------------------------- row partition (parallel)
\* Mutant: every worker but the first starts one row early
StartRowOneEarly(workerID, rpw) ==
    IF workerID = 0 THEN 0 ELSE workerID * rpw - 1

\* startRow := workerID * rowsPerWorker
StartRow(workerID, rpw) == workerID * rpw

\* Mutant: the last worker does not take the remainder rows
EndRowNoRemainder(workerID, rpw, nWorkers, h) == workerID * rpw + rpw

\* Mutant: a worker before the last takes one row when rowsPerWorker is zero
EndRowAtLeastOne(workerID, rpw, nWorkers, h) ==
    IF workerID = nWorkers - 1 THEN h
    ELSE workerID * rpw + (IF rpw = 0 THEN 1 ELSE rpw)

\* endRow := startRow + rowsPerWorker; the last worker takes the remainder
EndRow(workerID, rpw, nWorkers, h) ==
    IF workerID = nWorkers - 1 THEN h ELSE StartRow(workerID, rpw) + rpw

\* ------------------------------------------------------------------- state
VARIABLES
    image,        \* convolveParallel's argument image
    kernel,       \* its argument kernel
    numWorkers,   \* its argument numWorkers
    pc,           \* where the calling goroutine is
    paddedImage,  \* the zero-padded copy of image
    resultHdr,    \* result: the slice of row headers (row index -> row storage)
    rowData,      \* the row storages result's headers point to
    wg,           \* sync.WaitGroup counter
    resultCh,     \* buffered channel of ConvolveResult, capacity height
    closed,       \* whether resultCh is closed
    spawned,      \* loop variable w of the spawning loop
    wpc,          \* each worker goroutine's position
    wi,           \* each worker's loop variable i
    wj,           \* each worker's loop variable j
    cpc,          \* the closer goroutine's position
    convResult,   \* the collector's loop variable
    writes,       \* history: the workers that stored to each result cell, in order
    ret,          \* the grid returned to the caller
    sentBy,       \* history: the Index of each message a worker goroutine sent
    received,     \* history: how many messages of each Index the collector took
    closeCount,   \* history: how many times resultCh was closed
    pHeight,      \* partition run: the height
    pWorkers,     \* partition run: the worker count
    pw,           \* partition run: the next worker to take its row range
    owners,       \* partition run: the workers owning each row, in order
    gradientX,    \* combineAndNormalize's argument gradientX
    gradientY,    \* its argument gradientY
    cbpc,         \* where combineAndNormalize is
    edges,        \* its local edges
    minValue,     \* its local minValue
    maxValue,     \* its local maxValue
    sImage,       \* the sequential convolve's argument image
    sKernel,      \* its argument kernel
    spc,          \* where the sequential convolve is
    sPadded,      \* its local paddedImage
    sResult,      \* its local result
    si,           \* its row counter i of the convolution loop
    imageData,    \* main's imageData
    mpc,          \* where main is
    fImg,         \* imageToFloat64Array's argument img
    fpc,          \* where imageToFloat64Array's calling goroutine is
    fData,        \* its local imageData: per row, nil or the row's cells
    fwg,          \* its sync.WaitGroup counter
    fSpawned,     \* its loop variable i of the spawning loop
    fwpc,         \* each of its worker goroutines' position
    fy,           \* each worker's loop variable y
    fx,           \* each worker's loop variable x
    fAllocs,      \* history: the workers that allocated each row, in order
    fWrites       \* history: the workers that stored to each cell, in order

convVars == <<image, kernel, numWorkers, pc, paddedImage, resultHdr, rowData,
              wg, resultCh, closed, spawned, wpc, wi, wj, cpc, convResult,
              writes, ret, sentBy, received, closeCount>>

partVars == <<pHeight, pWorkers, pw, owners>>

combVars == <<gradientX, gradientY, cbpc, edges, minValue, maxValue>>

seqVars == <<sImage, sKernel, spc, sPadded, sResult, si>>

mainVars == <<imageData, mpc>>

toFloatVars == <<fImg, fpc, fData, fwg, fSpawned, fwpc, fy, fx, fAllocs,
                 fWrites>>

vars == <<convVars, partVars, combVars, seqVars, mainVars, toFloatVars>>

\* The locals of convolveParallel, fixed once the call has entered
height == len(image)

width == len(image[0])

kHeight == len(kernel)

kWidth == len(kernel[0])

\* Mutant: the half-extent of an odd kernel, one row short for an even one
padHeightOfOdd == (kHeight - 1) \div 2

padHeight == kHeight \div 2

padWidth == kWidth \div 2

\* Mutant: the quotient rounded up
RowsPerWorkerCeil(h, nWorkers) == (h + nWorkers - 1) \div nWorkers

\* rowsPerWorker := height / numWorkers
RowsPerWorker(h, nWorkers) == h \div nWorkers

rowsPerWorker == RowsPerWorker(height, numWorkers)

Workers == 0..(numWorkers - 1)

\* A message that always carries Index 0
ConvolveResultIndexZero(workerID, lo, hi) ==
    [Index |-> 0, lo |-> lo, hi |-> hi]

\* ConvolveResult{Result: result[lo:hi], Index: workerID}: Result is a slice
\* of result's own header array, so it is carried as its bounds.
ConvolveResult(workerID, lo, hi) == [Index |-> workerID, lo |-> lo, hi |-> hi]

\* The grid the caller sees through result's row headers
ResultGrid == [i \in DOMAIN resultHdr |-> rowData[resultHdr[i]]]

\* The other entry points, not running
PartIdle ==
    /\ pHeight = 0
    /\ pWorkers = 1
    /\ pw = 1
    /\ owners = <<>>

CombIdle ==
    /\ gradientX = <<>>
    /\ gradientY = <<>>
    /\ cbpc = "idle"
    /\ edges = <<>>
    /\ minValue = 0
    /\ maxValue = 0

SeqIdle ==
    /\ sImage = <<>>
    /\ sKernel = <<>>
    /\ spc = "idle"
    /\ sPadded = <<>>
    /\ sResult = <<>>
    /\ si = 0

MainIdle ==
    /\ imageData = <<>>
    /\ mpc = "idle"

ToFloatIdle ==
    /\ fImg = <<>>
    /\ fpc = "idle"
    /\ fData = <<>>
    /\ fwg = 0
    /\ fSpawned = 0
    /\ fwpc = <<>>
    /\ fy = <<>>
    /\ fx = <<>>
    /\ fAllocs = <<>>
    /\ fWrites = <<>>

ConvStart(entry) ==
    /\ pc = entry
    /\ paddedImage = <<>>
    /\ resultHdr = <<>>
    /\ rowData = <<>>
    /\ wg = 0
    /\ resultCh = <<>>
    /\ closed = FALSE
    /\ spawned = 0
    /\ wpc = [x \in Workers |-> "none"]
    /\ wi = [x \in Workers |-> 0]
    /\ wj = [x \in Workers |-> 0]
    /\ cpc = "none"
    /\ convResult = ConvolveResult(0, 0, 0)
    /\ writes = <<>>
    /\ ret = <<>>
    /\ sentBy = [x \in Workers |-> <<>>]
    /\ received = [x \in Workers |-> 0]
    /\ closeCount = 0

Init ==
    /\ image \in Images
    /\ kernel \in Kernels
    /\ numWorkers \in 1..(len(image) + ExtraWorkers)
    /\ ConvStart("entry")
    /\ PartIdle
    /\ CombIdle
    /\ SeqIdle
    /\ MainIdle
    /\ ToFloatIdle

\* ----------------------------------------------------- the calling goroutine
\* Lines 56-87: read the dimensions (image[0] and kernel[0] panic on an empty
\* slice), pad, allocate result, make the channel.
Enter ==
    /\ pc = "entry"
    /\ IF len(image) = 0 \/ len(kernel) = 0
       THEN /\ pc' = "panic"
            /\ UNCHANGED <<paddedImage, resultHdr, rowData, writes>>
       ELSE /\ pc' = "spawn"
            /\ paddedImage' = PadImage(image, width, padHeight, padWidth)
            /\ resultHdr' = [i \in 0..(height - 1) |-> i]
            /\ rowData' = MakeGrid(height, width)
            /\ writes' = [i \in 0..(height - 1) |-> [j \in 0..(width - 1) |-> <<>>]]
    /\ UNCHANGED <<image, kernel, numWorkers, wg, resultCh, closed, spawned,
                   wpc, wi, wj, cpc, convResult, ret>>
    /\ UNCHANGED <<sentBy, received, closeCount>>
    /\ UNCHANGED <<partVars, combVars, seqVars, mainVars, toFloatVars>>

\* Lines 90-92: wg.Add(1); go func(workerID) {...}(w)
Spawn ==
    /\ pc = "spawn"
    /\ spawned < numWorkers
    /\ wg' = wg + 1
    /\ wpc' = [wpc EXCEPT ![spawned] = "run"]
    /\ wi' = [wi EXCEPT ![spawned] = StartRow(spawned, rowsPerWorker)]
    /\ wj' = [wj EXCEPT ![spawned] = 0]
    /\ spawned' = spawned + 1
    /\ UNCHANGED <<image, kernel, numWorkers, pc, paddedImage, resultHdr,
                   rowData, resultCh, closed, cpc, convResult, writes, ret>>
    /\ UNCHANGED <<sentBy, received, closeCount>>
    /\ UNCHANGED <<partVars, combVars, seqVars, mainVars, toFloatVars>>

\* Lines 120-123: go func() { wg.Wait(); close(resultCh) }()
SpawnCloser ==
    /\ pc = "spawn"
    /\ spawned = numWorkers
    /\ cpc' = "wait"
    /\ pc' = "recv"
    /\ UNCHANGED <<image, kernel, numWorkers, paddedImage, resultHdr, rowData,
                   wg, resultCh, closed, spawned, wpc, wi, wj, convResult,
                   writes, ret>>
    /\ UNCHANGED <<sentBy, received, closeCount>>
    /\ UNCHANGED <<partVars, combVars, seqVars, mainVars, toFloatVars>>

\* ------------------------------------------------------ a worker goroutine
\* Mutant: the worker also stores the sum into the padded image, in place
WorkerComputeInPlace(workerID) ==
    /\ pc \notin {"panic", "entry"}
    /\ wpc[workerID] = "run"
    /\ wi[workerID] < EndRow(workerID, rowsPerWorker, numWorkers, height)
    /\ LET i == wi[workerID]
           j == wj[workerID]
       IN  IF width = 0
           THEN /\ wi' = [wi EXCEPT ![workerID] = i + 1]
                /\ UNCHANGED <<pc, wj, rowData, writes, paddedImage>>
           ELSE IF \/ ReadOutOfRange(paddedImage, kHeight, kWidth, i, j)
                   \/ i \notin DOMAIN resultHdr
                THEN /\ pc' = "panic"
                     /\ UNCHANGED <<wi, wj, rowData, writes, paddedImage>>
                ELSE /\ rowData' = [rowData EXCEPT ![resultHdr[i]][j] =
                                      CellSum(paddedImage, kernel, kWidth, i, j)]
                     /\ writes' = [writes EXCEPT ![resultHdr[i]][j] =
                                      Append(@, workerID)]
                     /\ paddedImage' = [paddedImage EXCEPT
                                          ![i + padHeight][j + padWidth] =
                                      CellSum(paddedImage, kernel, kWidth, i, j)]
                     /\ IF j + 1 < width
                        THEN /\ wj' = [wj EXCEPT ![workerID] = j + 1]
                             /\ UNCHANGED wi
                        ELSE /\ wj' = [wj EXCEPT ![workerID] = 0]
                             /\ wi' = [wi EXCEPT ![workerID] = i + 1]
                     /\ UNCHANGED pc
    /\ UNCHANGED <<image, kernel, numWorkers, resultHdr, wg,
                   resultCh, closed, spawned, wpc, cpc, convResult, ret>>
    /\ UNCHANGED <<sentBy, received, closeCount>>
    /\ UNCHANGED <<partVars, combVars, seqVars, mainVars, toFloatVars>>

\* Lines 103-113, one cell per step: the kernel sum at (i,j), stored to
\* result[i][j]; an out-of-range index panics.  A row of no columns has no
\* cell: the i loop just advances.
WorkerCompute(workerID) ==
    /\ pc \notin {"panic", "entry"}
    /\ wpc[workerID] = "run"
    /\ wi[workerID] < EndRow(workerID, rowsPerWorker, numWorkers, height)
    /\ LET i == wi[workerID]
           j == wj[workerID]
       IN  IF width = 0
           THEN /\ wi' = [wi EXCEPT ![workerID] = i + 1]
                /\ UNCHANGED <<pc, wj, rowData, writes>>
           ELSE IF \/ ReadOutOfRange(paddedImage, kHeight, kWidth, i, j)
                   \/ i \notin DOMAIN resultHdr
                THEN /\ pc' = "panic"
                     /\ UNCHANGED <<wi, wj, rowData, writes>>
                ELSE /\ rowData' = [rowData EXCEPT ![resultHdr[i]][j] =
                                      CellSum(paddedImage, kernel, kWidth, i, j)]
                     /\ writes' = [writes EXCEPT ![resultHdr[i]][j] =
                                      Append(@, workerID)]
                     /\ IF j + 1 < width
                        THEN /\ wj' = [wj EXCEPT ![workerID] = j + 1]
                             /\ UNCHANGED wi
                        ELSE /\ wj' = [wj EXCEPT ![workerID] = 0]
                             /\ wi' = [wi EXCEPT ![workerID] = i + 1]
                     /\ UNCHANGED pc
    /\ UNCHANGED <<image, kernel, numWorkers, paddedImage, resultHdr, wg,
                   resultCh, closed, spawned, wpc, cpc, convResult, ret>>
    /\ UNCHANGED <<sentBy, received, closeCount>>
    /\ UNCHANGED <<partVars, combVars, seqVars, mainVars, toFloatVars>>

\* Mutant: the worker may send before it has stored all its cells
WorkerSendEarly(workerID) ==
    /\ pc \notin {"panic", "entry"}
    /\ wpc[workerID] = "run"
    /\ LET startRow == StartRow(workerID, rowsPerWorker)
           endRow == EndRow(workerID, rowsPerWorker, numWorkers, height)
       IN  IF startRow > endRow \/ endRow > height \/ closed
           THEN /\ pc' = "panic"
                /\ UNCHANGED <<resultCh, wpc, sentBy>>
           ELSE /\ Len(resultCh) < height
                /\ resultCh' = Append(resultCh,
                                      ConvolveResult(workerID, startRow, endRow))
                /\ sentBy' = [sentBy EXCEPT ![workerID] = Append(@,
                                ConvolveResult(workerID, startRow, endRow).Index)]
                /\ wpc' = [wpc EXCEPT ![workerID] = "sent"]
                /\ UNCHANGED pc
    /\ UNCHANGED <<image, kernel, numWorkers, paddedImage, resultHdr, rowData,
                   wg, closed, spawned, wi, wj, cpc, convResult, writes, ret>>
    /\ UNCHANGED <<received, closeCount>>
    /\ UNCHANGED <<partVars, combVars, seqVars, mainVars, toFloatVars>>

\* Line 115: resultCh <- ConvolveResult{Result: result[startRow:endRow], ...}.
\* The slice expression panics unless 0 <= startRow <= endRow <= cap(result);
\* a send on a closed channel panics; a send on a full channel blocks.
WorkerSend(workerID) ==
    /\ pc \notin {"panic", "entry"}
    /\ wpc[workerID] = "run"
    /\ wi[workerID] >= EndRow(workerID, rowsPerWorker, numWorkers, height)
    /\ LET startRow == StartRow(workerID, rowsPerWorker)
           endRow == EndRow(workerID, rowsPerWorker, numWorkers, height)
       IN  IF startRow > endRow \/ endRow > height \/ closed
           THEN /\ pc' = "panic"
                /\ UNCHANGED <<resultCh, wpc, sentBy>>
           ELSE /\ Len(resultCh) < height
                /\ resultCh' = Append(resultCh,
                                      ConvolveResult(workerID, startRow, endRow))
                /\ sentBy' = [sentBy EXCEPT ![workerID] = Append(@,
                                ConvolveResult(workerID, startRow, endRow).Index)]
                /\ wpc' = [wpc EXCEPT ![workerID] = "sent"]
                /\ UNCHANGED pc
    /\ UNCHANGED <<image, kernel, numWorkers, paddedImage, resultHdr, rowData,
                   wg, closed, spawned, wi, wj, cpc, convResult, writes, ret>>
    /\ UNCHANGED <<received, closeCount>>
    /\ UNCHANGED <<partVars, combVars, seqVars, mainVars, toFloatVars>>

\* Mutant: the worker exits without wg.Done()
WorkerDoneNoSignal(workerID) ==
    /\ pc \notin {"panic", "entry"}
    /\ wpc[workerID] = "sent"
    /\ wpc' = [wpc EXCEPT ![workerID] = "exit"]
    /\ UNCHANGED wg
    /\ UNCHANGED <<image, kernel, numWorkers, pc, paddedImage, resultHdr,
                   rowData, resultCh, closed, spawned, wi, wj, cpc, convResult,
                   writes, ret>>
    /\ UNCHANGED <<sentBy, received, closeCount>>
    /\ UNCHANGED <<partVars, combVars, seqVars, mainVars, toFloatVars>>

\* Line 93: defer wg.Done()
WorkerDone(workerID) ==
    /\ pc \notin {"panic", "entry"}
    /\ wpc[workerID] = "sent"
    /\ wpc' = [wpc EXCEPT ![workerID] = "exit"]
    /\ wg' = wg - 1
    /\ UNCHANGED <<image, kernel, numWorkers, pc, paddedImage, resultHdr,
                   rowData, resultCh, closed, spawned, wi, wj, cpc, convResult,
                   writes, ret>>
    /\ UNCHANGED <<sentBy, received, closeCount>>
    /\ UNCHANGED <<partVars, combVars, seqVars, mainVars, toFloatVars>>

\* ------------------------------------------------------ the closer goroutine
\* Mutant: the closer does not wait for the counter to reach zero
CloserNoWait ==
    /\ pc # "panic"
    /\ cpc = "wait"
    /\ cpc' = "close"
    /\ UNCHANGED <<image, kernel, numWorkers, pc, paddedImage, resultHdr,
                   rowData, wg, resultCh, closed, spawned, wpc, wi, wj,
                   convResult, writes, ret>>
    /\ UNCHANGED <<sentBy, received, closeCount>>
    /\ UNCHANGED <<partVars, combVars, seqVars, mainVars, toFloatVars>>

\* Line 121: wg.Wait() returns once the counter is zero
CloserWait ==
    /\ pc # "panic"
    /\ cpc = "wait"
    /\ wg = 0
    /\ cpc' = "close"
    /\ UNCHANGED <<image, kernel, numWorkers, pc, paddedImage, resultHdr,
                   rowData, wg, resultCh, closed, spawned, wpc, wi, wj,
                   convResult, writes, ret>>
    /\ UNCHANGED <<sentBy, received, closeCount>>
    /\ UNCHANGED <<partVars, combVars, seqVars, mainVars, toFloatVars>>

\* Line 122: close(resultCh)
CloserClose ==
    /\ pc # "panic"
    /\ cpc = "close"
    /\ closed' = TRUE
    /\ cpc' = "exit"
    /\ UNCHANGED <<image, kernel, numWorkers, pc, paddedImage, resultHdr,
                   rowData, wg, resultCh, spawned, wpc, wi, wj, convResult,
                   writes, ret>>
    /\ closeCount' = closeCount + 1
    /\ UNCHANGED <<sentBy, received>>
    /\ UNCHANGED <<partVars, combVars, seqVars, mainVars, toFloatVars>>

\* ------------------------------------------------------- the collector loop
\* Line 126: for convResult := range resultCh, a message is there
Recv ==
    /\ pc = "recv"
    /\ Len(resultCh) > 0
    /\ convResult' = Head(resultCh)
    /\ resultCh' = Tail(resultCh)
    /\ pc' = "copy"
    /\ UNCHANGED <<image, kernel, numWorkers, paddedImage, resultHdr, rowData,
                   wg, closed, spawned, wpc, wi, wj, cpc, writes, ret>>
    /\ received' = [received EXCEPT ![Head(resultCh).Index] = @ + 1]
    /\ UNCHANGED <<sentBy, closeCount>>
    /\ UNCHANGED <<partVars, combVars, seqVars, mainVars, toFloatVars>>


\* Mutant: the headers are copied to the front of result, whatever startRow
CopyHeadersToFront(hdr, startRow, lo, hi) ==
    LET n == Min2(len(hdr), hi - lo)
    IN  [r \in DOMAIN hdr |->
            IF r < n THEN hdr[lo + r] ELSE hdr[r]]

\* copy(dst, src) of row headers: min(len(dst), len(src)) headers move, as if
\* through a temporary (the slices overlap).  dst = result[startRow:],
\* src = result[lo:hi].
CopyHeaders(hdr, startRow, lo, hi) ==
    LET n == Min2(len(hdr) - startRow, hi - lo)
    IN  [r \in DOMAIN hdr |->
            IF r >= startRow /\ r < startRow + n
            THEN hdr[lo + (r - startRow)]
            ELSE hdr[r]]


\* The one-goroutine-per-row variant's collector step,
\* copy(result[startRow], convResult.Result[0]) with startRow = Index: the
\* samples of row lo of result are copied into row Index of result.
CopyRow(data, hdr, index, lo) ==
    [data EXCEPT ![hdr[index]] =
        [j \in DOMAIN data[hdr[index]] |->
            IF j < len(data[hdr[lo]]) THEN data[hdr[lo]][j] ELSE @[j]]]

\* Mutant: the collector takes the next worker's start row
CollectStartRowNext(index, rpw) == (index + 1) * rpw

\* startRow := convResult.Index * rowsPerWorker
CollectStartRow(index, rpw) == index * rpw

\* Lines 127-128: result[startRow:] panics when startRow > len(result)
Copy ==
    /\ pc = "copy"
    /\ LET startRow == CollectStartRow(convResult.Index, rowsPerWorker)
       IN  IF startRow > height
           THEN /\ pc' = "panic"
                /\ UNCHANGED resultHdr
           ELSE /\ resultHdr' = CopyHeaders(resultHdr, startRow,
                                            convResult.lo, convResult.hi)
                /\ pc' = "recv"
    /\ UNCHANGED <<image, kernel, numWorkers, paddedImage, rowData, wg,
                   resultCh, closed, spawned, wpc, wi, wj, cpc, convResult,
                   writes, ret>>
    /\ UNCHANGED <<sentBy, received, closeCount>>
    /\ UNCHANGED <<partVars, combVars, seqVars, mainVars, toFloatVars>>

\* Lines 126 and 131: the channel is closed and drained, the loop ends and
\* result is returned
Return ==
    /\ pc = "recv"
    /\ Len(resultCh) = 0
    /\ closed
    /\ ret' = ResultGrid
    /\ pc' = "returned"
    /\ UNCHANGED <<image, kernel, numWorkers, paddedImage, resultHdr, rowData,
                   wg, resultCh, closed, spawned, wpc, wi, wj, cpc, convResult,
                   writes>>
    /\ UNCHANGED <<sentBy, received, closeCount>>
    /\ UNCHANGED <<partVars, combVars, seqVars, mainVars, toFloatVars>>

Next ==
    \/ Enter
    \/ Spawn
    \/ SpawnCloser
    \/ \E workerID \in Workers : WorkerCompute(workerID)
    \/ \E workerID \in Workers : WorkerSend(workerID)
    \/ \E workerID \in Workers : WorkerDone(workerID)
    \/ CloserWait
    \/ CloserClose
    \/ Recv
    \/ Copy
    \/ Return

Spec == Init /\ [][Next]_vars

\* The calls whose image holds only zero samples.  No branch of
\* convolveParallel reads a sample, so these calls take every control path
\* of the calls of Init.
InitFair ==
    /\ Init
    /\ Lit(image) = 0

\* The Go scheduler runs a goroutine that can take a step: as long as some
\* step of convolveParallel is possible, one is eventually taken.
SpecFair == InitFair /\ [][Next]_vars /\ WF_vars(Next)

\* --------------------------------------------------- sequential convolution
\* Mutant: the image is stored at (i, j), without the pad offsets
SeqPaddedAtOrigin(img, krn) ==
    LET h == len(img)
        w == len(img[0])
        padH == len(krn) \div 2
        padW == len(krn[0]) \div 2
    IN  [i \in 0..(h + 2 * padH - 1) |-> [j \in 0..(w + 2 * padW - 1) |->
            IF i \in 0..(h - 1) /\ j \in 0..(w - 1) THEN img[i][j] ELSE Float(0)]]

\* convolve's padded image: zeroes, with img stored at (i+padH, j+padW)
SeqPadded(img, krn) ==
    LET h == len(img)
        w == len(img[0])
        padH == len(krn) \div 2
        padW == len(krn[0]) \div 2
    IN  [i \in 0..(h + 2 * padH - 1) |-> [j \in 0..(w + 2 * padW - 1) |->
            IF /\ i - padH \in 0..(h - 1)
               /\ j - padW \in 0..(w - 1)
            THEN img[i - padH][j - padW]
            ELSE Float(0)]]

\* Mutant: the kernel is read flipped in both directions
RECURSIVE SeqRowSumFlipped(_, _, _, _, _, _, _)
SeqRowSumFlipped(padded, krn, i, j, ii, jj, sum) ==
    IF jj = len(krn[0]) THEN sum
    ELSE SeqRowSumFlipped(padded, krn, i, j, ii, jj + 1,
             FAdd(sum, FMul(padded[i + ii][j + jj],
                            krn[len(krn) - 1 - ii][len(krn[0]) - 1 - jj])))

\* The jj loop of convolve for one kernel row ii
RECURSIVE SeqRowSum(_, _, _, _, _, _, _)
SeqRowSum(padded, krn, i, j, ii, jj, sum) ==
    IF jj = len(krn[0]) THEN sum
    ELSE SeqRowSum(padded, krn, i, j, ii, jj + 1,
                   FAdd(sum, FMul(padded[i + ii][j + jj], krn[ii][jj])))

\* The ii loop of convolve
RECURSIVE SeqSum(_, _, _, _, _, _)
SeqSum(padded, krn, i, j, ii, sum) ==
    IF ii = len(krn) THEN sum
    ELSE SeqSum(padded, krn, i, j, ii + 1,
                SeqRowSum(padded, krn, i, j, ii, 0, sum))

\* convolve(image, kernel), for an image and a kernel of at least one row
\* (image[0] and kernel[0] panic otherwise)
convolve(img, krn) ==
    LET padded == SeqPadded(img, krn)
    IN  [i \in 0..(len(img) - 1) |-> [j \in 0..(len(img[0]) - 1) |->
            SeqSum(padded, krn, i, j, 0, Float(0))]]


\* -------------------------------------------------- the sequential convolve run
\* convolve as a run: entry and padding, allocation of result, the
\* convolution loop row by row, return.
\* A grid of h rows and w columns holding c everywhere
Uniform(h, w, c) == [i \in 0..(h - 1) |-> [j \in 0..(w - 1) |-> c]]

\* A grid of zeroes with a single 1 at (r, q)
Impulse(h, w, r, q) ==
    [i \in 0..(h - 1) |-> [j \in 0..(w - 1) |->
        IF i = r /\ j = q THEN Float(1) ELSE Float(0)]]

\* The samples n / SampleDen, n in 0..MaxSeqVal, and 1/2
SeqSamples ==
    {FDiv(Float(n), Float(SampleDen)) : n \in 0..MaxSeqVal}
    \cup {FDiv(Float(1), Float(2))}

\* The argument images: the uniform grids of 0..MaxSeqH rows and 0..MaxSeqW
\* columns over SeqSamples, and the impulses of those shapes
SeqImages ==
    {Uniform(h, w, c) : h \in 0..MaxSeqH, w \in 0..MaxSeqW, c \in SeqSamples}
    \cup UNION {{Impulse(h, w, r, q) : r \in 0..(h - 1), q \in 0..(w - 1)} :
                  h \in 1..MaxSeqH, w \in 1..MaxSeqW}

\* The argument kernels: those of the parallel run, a 1x3 kernel of weights
\* -3, 1, 2 and a 3x3 Laplacian
SeqKernels ==
    {FloatGrid(k) : k \in Kernels} \cup
    { FloatGrid([i \in 0..0 |-> [j \in 0..2 |-> IF j = 0 THEN -3 ELSE j]]),
      FloatGrid([i \in 0..2 |-> [j \in 0..2 |->
          IF i = 1 /\ j = 1 THEN -4 ELSE IF i = 1 \/ j = 1 THEN 1 ELSE 0]]) }

InitSeq ==
    /\ sImage \in SeqImages
    /\ sKernel \in SeqKernels
    /\ spc = "entry"
    /\ sPadded = <<>>
    /\ sResult = <<>>
    /\ si = 0
    /\ image = <<>>
    /\ kernel = <<>>
    /\ numWorkers = 1
    /\ ConvStart("idle")
    /\ PartIdle
    /\ CombIdle
    /\ MainIdle
    /\ ToFloatIdle

\* Lines 13-32: the dimensions (image[0] and kernel[0] panic on an empty
\* slice) and the padded image
SeqEnter ==
    /\ spc = "entry"
    /\ IF len(sImage) = 0 \/ len(sKernel) = 0
       THEN /\ spc' = "panic"
            /\ UNCHANGED sPadded
       ELSE /\ spc' = "alloc"
            /\ sPadded' = SeqPadded(sImage, sKernel)
    /\ UNCHANGED <<sImage, sKernel, sResult, si, convVars, partVars, combVars,
                   mainVars, toFloatVars>>

\* Lines 35-38: result is allocated, zeroed
SeqAlloc ==
    /\ spc = "alloc"
    /\ sResult' = FloatGrid(MakeGrid(len(sImage), len(sImage[0])))
    /\ si' = 0
    /\ spc' = "convolve"
    /\ UNCHANGED <<sImage, sKernel, sPadded, convVars, partVars, combVars,
                   mainVars, toFloatVars>>

\* Lines 41-51, one row i per step: every cell of the row gets its kernel
\* sum; an out-of-range index panics
SeqRow ==
    /\ spc = "convolve"
    /\ si < len(sImage)
    /\ IF \E j \in 0..(len(sImage[0]) - 1) :
             ReadOutOfRange(sPadded, len(sKernel), len(sKernel[0]), si, j)
       THEN /\ spc' = "panic"
            /\ UNCHANGED <<sResult, si>>
       ELSE /\ sResult' = [sResult EXCEPT ![si] =
                             [j \in 0..(len(sImage[0]) - 1) |->
                                 SeqSum(sPadded, sKernel, si, j, 0, Float(0))]]
            /\ si' = si + 1
            /\ UNCHANGED spc
    /\ UNCHANGED <<sImage, sKernel, sPadded, convVars, partVars, combVars,
                   mainVars, toFloatVars>>

\* Line 53: return result
SeqReturn ==
    /\ spc = "convolve"
    /\ si = len(sImage)
    /\ spc' = "returned"
    /\ UNCHANGED <<sImage, sKernel, sPadded, sResult, si, convVars, partVars,
                   combVars, mainVars, toFloatVars>>

NextSeq ==
    \/ SeqEnter
    \/ SeqAlloc
    \/ SeqRow
    \/ SeqReturn

SpecSeq == InitSeq /\ [][NextSeq]_vars

\* ------------------------------------------------------ the row partition run
\* Each worker's row range, taken worker by worker for a height and a worker
\* count, with the owner of every row recorded.
PartHeights == 1..MaxPartH

PartWorkers == 1..MaxPartN

InitPartition ==
    /\ pHeight \in PartHeights
    /\ pWorkers \in PartWorkers
    /\ pw = 0
    /\ owners = [r \in 0..(pHeight - 1) |-> <<>>]
    /\ image = <<>>
    /\ kernel = <<>>
    /\ numWorkers = 1
    /\ ConvStart("idle")
    /\ CombIdle
    /\ SeqIdle
    /\ MainIdle
    /\ ToFloatIdle

\* Lines 95-103: worker pw's startRow and endRow; it owns rows startRow..endRow-1
TakeRange ==
    /\ pw < pWorkers
    /\ LET rpw == RowsPerWorker(pHeight, pWorkers)
           startRow == StartRow(pw, rpw)
           endRow == EndRow(pw, rpw, pWorkers, pHeight)
       IN  owners' = [r \in DOMAIN owners |->
                        IF startRow <= r /\ r < endRow
                        THEN Append(owners[r], pw)
                        ELSE owners[r]]
    /\ pw' = pw + 1
    /\ UNCHANGED <<pHeight, pWorkers, convVars, combVars,
                   seqVars, mainVars, toFloatVars>>

NextPartition == TakeRange

SpecPartition == InitPartition /\ [][NextPartition]_vars

\* ------------------------------------------------------ combineAndNormalize
\* The gradient grids of 1..maxH rows and 1..maxW columns over
\* -MaxGrad..MaxGrad with at most MaxGradLit nonzero samples
Gradients(maxH, maxW) ==
    UNION { SparseGrids(h, w, (-MaxGrad)..MaxGrad, MaxGradLit) :
              h \in 1..maxH, w \in 1..maxW }

InitCombine ==
    /\ gradientX \in Gradients(MaxGH, MaxGW)
    /\ gradientY \in Gradients(MaxGH, MaxGW)
    /\ cbpc = "entry"
    /\ edges = <<>>
    /\ minValue = 0
    /\ maxValue = 0
    /\ image = <<>>
    /\ kernel = <<>>
    /\ numWorkers = 1
    /\ ConvStart("idle")
    /\ PartIdle
    /\ SeqIdle
    /\ MainIdle
    /\ ToFloatIdle

\* Lines 283-286: edges is allocated with gradientX's shape
CombAlloc ==
    /\ cbpc = "entry"
    /\ edges' = MakeGrid(len(gradientX), len(gradientX[0]))
    /\ cbpc' = "magnitude"
    /\ UNCHANGED <<gradientX, gradientY, minValue, maxValue, convVars,
                   partVars, seqVars, mainVars, toFloatVars>>

\* Lines 288-292: edges[i][j] = sqrt(gx^2 + gy^2) over gradientX's cells;
\* gradientY[i][j] out of range panics
CombMagnitude ==
    /\ cbpc = "magnitude"
    /\ IF \E i \in DOMAIN gradientX : \E j \in DOMAIN gradientX[0] :
             i \notin DOMAIN gradientY \/ j \notin DOMAIN gradientY[i]
       THEN /\ cbpc' = "panic"
            /\ UNCHANGED edges
       ELSE /\ edges' = [i \in DOMAIN gradientX |-> [j \in DOMAIN gradientX[0] |->
                           Sqrt(FAdd(FMul(Float(gradientX[i][j]),
                                          Float(gradientX[i][j])),
                                     FMul(Float(gradientY[i][j]),
                                          Float(gradientY[i][j]))))]]
            /\ cbpc' = "minmax"
    /\ UNCHANGED <<gradientX, gradientY, minValue, maxValue, convVars,
                   partVars, seqVars, mainVars, toFloatVars>>

\* Mutant: minValue stays edges[0][0]
MinLoopNoScan(e, k, m) == m

\* Lines 297-306: the running minimum over the cells in row-major order
RECURSIVE MinLoop(_, _, _)
MinLoop(e, k, m) ==
    IF k = len(e) * len(e[0]) THEN m
    ELSE LET v == e[k \div len(e[0])][k % len(e[0])]
         IN  MinLoop(e, k + 1, IF FLess(v, m) THEN v ELSE m)

\* Lines 297-306: the running maximum
RECURSIVE MaxLoop(_, _, _)
MaxLoop(e, k, m) ==
    IF k = len(e) * len(e[0]) THEN m
    ELSE LET v == e[k \div len(e[0])][k % len(e[0])]
         IN  MaxLoop(e, k + 1, IF FLess(m, v) THEN v ELSE m)

\* Lines 295-306: minValue and maxValue start at edges[0][0]
CombMinMax ==
    /\ cbpc = "minmax"
    /\ minValue' = MinLoop(edges, 0, edges[0][0])
    /\ maxValue' = MaxLoop(edges, 0, edges[0][0])
    /\ cbpc' = "normalize"
    /\ UNCHANGED <<gradientX, gradientY, edges, convVars,
                   partVars, seqVars, mainVars, toFloatVars>>

\* Line 310: 255 * (edges[i][j] - minValue) / (maxValue - minValue)
Normalize(v, lo, hi) ==
    FDiv(FMul(Float(MaxGray), FSub(v, lo)), FSub(hi, lo))

\* Lines 308-314: every cell is rescaled and edges is returned
CombNormalize ==
    /\ cbpc = "normalize"
    /\ edges' = [i \in DOMAIN edges |-> [j \in DOMAIN edges[i] |->
                    Normalize(edges[i][j], minValue, maxValue)]]
    /\ cbpc' = "returned"
    /\ UNCHANGED <<gradientX, gradientY, minValue, maxValue, convVars,
                   partVars, seqVars, mainVars, toFloatVars>>

NextCombine ==
    \/ CombAlloc
    \/ CombMagnitude
    \/ CombMinMax
    \/ CombNormalize

SpecCombine == InitCombine /\ [][NextCombine]_vars

\* ------------------------------------------------------------------ main
\* Lines 151-156 of main: the two convolveParallel calls and
\* combineAndNormalize.  A sample n of imageData stands for n/2: the
\* convolutions of such samples are exact, and every float64 operation of
\* the combiner commutes with this power-of-two unit.
\* imageData: the uniform grids of 1..MaxMainH rows and 1..MaxMainW columns
\* over 0..MaxMainVal
MainImages ==
    {Uniform(h, w, c) : h \in 1..MaxMainH, w \in 1..MaxMainW, c \in 0..MaxMainVal}

InitMain ==
    /\ imageData \in MainImages
    /\ mpc = "start"
    /\ ToFloatIdle
    /\ image = <<>>
    /\ kernel = <<>>
    /\ numWorkers \in 1..MaxCPU
    /\ ConvStart("idle")
    /\ PartIdle
    /\ CombIdle
    /\ SeqIdle

\* A call convolveParallel(img, krn, numWorkers): its run starts
ConvCall(img, krn) ==
    /\ image' = img
    /\ kernel' = krn
    /\ UNCHANGED numWorkers
    /\ pc' = "entry"
    /\ paddedImage' = <<>>
    /\ resultHdr' = <<>>
    /\ rowData' = <<>>
    /\ wg' = 0
    /\ resultCh' = <<>>
    /\ closed' = FALSE
    /\ spawned' = 0
    /\ wpc' = [x \in Workers |-> "none"]
    /\ wi' = [x \in Workers |-> 0]
    /\ wj' = [x \in Workers |-> 0]
    /\ cpc' = "none"
    /\ convResult' = ConvolveResult(0, 0, 0)
    /\ writes' = <<>>
    /\ ret' = <<>>
    /\ sentBy' = [x \in Workers |-> <<>>]
    /\ received' = [x \in Workers |-> 0]
    /\ closeCount' = 0

\* Line 151: convolveParallel(imageData, sobelX, numWorkers) is called
MainCallX ==
    /\ mpc = "start"
    /\ ConvCall(imageData, sobelX)
    /\ mpc' = "convX"
    /\ UNCHANGED <<imageData, partVars, combVars, seqVars, toFloatVars>>

\* Lines 151-152: gradientX is the grid returned;
\* convolveParallel(imageData, sobelY, numWorkers) is called
MainCallY ==
    /\ mpc = "convX"
    /\ pc = "returned"
    /\ gradientX' = ret
    /\ ConvCall(imageData, sobelY)
    /\ mpc' = "convY"
    /\ UNCHANGED <<imageData, gradientY, cbpc, edges, minValue, maxValue,
                   partVars, seqVars, toFloatVars>>

\* Lines 152-156: gradientY is the grid returned;
\* combineAndNormalize(gradientX, gradientY) is called
MainCombine ==
    /\ mpc = "convY"
    /\ pc = "returned"
    /\ gradientY' = ret
    /\ cbpc' = "entry"
    /\ mpc' = "combine"
    /\ UNCHANGED <<imageData, gradientX, edges, minValue, maxValue, convVars,
                   partVars, seqVars, toFloatVars>>

\* Line 156: edges is the grid combineAndNormalize returned
MainEdges ==
    /\ mpc = "combine"
    /\ cbpc = "returned"
    /\ mpc' = "edges"
    /\ UNCHANGED <<imageData, convVars, partVars, combVars, seqVars, toFloatVars>>

NextMain ==
    \/ MainCallX
    \/ MainCallY
    \/ MainCombine
    \/ MainEdges
    \/ Next
    \/ NextCombine

SpecMain == InitMain /\ [][NextMain]_vars

\* ------------------------------------------------------ imageToFloat64Array
\* part_000 lines 208-244.  img is its bounds (Dx columns, Dy rows) and, per
\* pixel, the r that img.At(x, y).RGBA() returns, a 16-bit channel value.
PixelValues == {(n * MaxChannel) \div MaxPix : n \in 0..MaxPix}

PixelImages ==
    {[Dx |-> w, Dy |-> h, At |-> g] :
        <<h, w, g>> \in UNION {{<<h, w, g>> :
                                  g \in SparseGrids(h, w, PixelValues, 1)} :
                               <<h, w>> \in (0..MaxPixH) \X (0..MaxPixW)}}

\* A nil row of imageData, and a row made by make([]float64, w)
NilRow == [nil |-> TRUE, cells |-> <<>>]

MakeFloatRow(w) == [nil |-> FALSE, cells |-> [x \in 0..(w - 1) |-> Float(0)]]

\* Line 235: float64(r) / 65535.0
ToFloat64(r) == FDiv(Float(r), Float(MaxChannel))

\* Line 218: rowsPerWorker := height / numWorkers
ToFloatRowsPerWorker == fImg.Dy \div numWorkers

\* Line 221: startRow := i * rowsPerWorker
ToFloatStartRow(i, rpw) == i * rpw

\* Mutant: the last worker stops after rowsPerWorker rows as well
ToFloatEndRowNoRemainder(i, rpw, nWorkers, h) == i * rpw + rpw

\* Lines 222-226: endRow := startRow + rowsPerWorker; the last worker's
\* endRow is height
ToFloatEndRow(i, rpw, nWorkers, h) ==
    IF i = nWorkers - 1 THEN h ELSE i * rpw + rpw

InitToFloat ==
    /\ fImg \in PixelImages
    /\ numWorkers \in 1..MaxPixN
    /\ fpc = "entry"
    /\ fData = <<>>
    /\ fwg = 0
    /\ fSpawned = 0
    /\ fwpc = <<>>
    /\ fy = <<>>
    /\ fx = <<>>
    /\ fAllocs = <<>>
    /\ fWrites = <<>>
    /\ image = <<>>
    /\ kernel = <<>>
    /\ ConvStart("idle")
    /\ PartIdle
    /\ CombIdle
    /\ SeqIdle
    /\ MainIdle

\* Lines 209-218: width, height, imageData := make([][]float64, height) with
\* every row nil, wg.Add(numWorkers), rowsPerWorker
ToFloatEnter ==
    /\ fpc = "entry"
    /\ fData' = [y \in 0..(fImg.Dy - 1) |-> NilRow]
    /\ fwg' = fwg + numWorkers
    /\ fSpawned' = 0
    /\ fwpc' = [w \in Workers |-> "none"]
    /\ fy' = [w \in Workers |-> 0]
    /\ fx' = [w \in Workers |-> 0]
    /\ fAllocs' = [y \in 0..(fImg.Dy - 1) |-> <<>>]
    /\ fWrites' = [y \in 0..(fImg.Dy - 1) |->
                     [x \in 0..(fImg.Dx - 1) |-> <<>>]]
    /\ fpc' = "spawn"
    /\ UNCHANGED <<fImg, convVars, partVars, combVars, seqVars, mainVars>>

\* Lines 220-228: startRow and endRow of worker i are computed and
\* go func(startRow, endRow) starts it
ToFloatSpawn ==
    /\ fpc = "spawn"
    /\ fSpawned < numWorkers
    /\ fwpc' = [fwpc EXCEPT ![fSpawned] = "run"]
    /\ fy' = [fy EXCEPT ![fSpawned] =
                 ToFloatStartRow(fSpawned, ToFloatRowsPerWorker)]
    /\ fSpawned' = fSpawned + 1
    /\ UNCHANGED <<fImg, fpc, fData, fwg, fx, fAllocs, fWrites, convVars,
                   partVars, combVars, seqVars, mainVars>>

\* Lines 231-232: y < endRow, imageData[y] = make([]float64, width); an
\* index y outside imageData panics.  With no columns the x loop has no
\* pass and y advances.
ToFloatAlloc(w) ==
    /\ fpc \notin {"panic", "entry"}
    /\ fwpc[w] = "run"
    /\ fy[w] < ToFloatEndRow(w, ToFloatRowsPerWorker, numWorkers, fImg.Dy)
    /\ IF fy[w] \notin DOMAIN fData
       THEN /\ fpc' = "panic"
            /\ UNCHANGED <<fData, fAllocs, fwpc, fy, fx>>
       ELSE /\ fData' = [fData EXCEPT ![fy[w]] = MakeFloatRow(fImg.Dx)]
            /\ fAllocs' = [fAllocs EXCEPT ![fy[w]] = Append(@, w)]
            /\ fx' = [fx EXCEPT ![w] = 0]
            /\ IF fImg.Dx = 0
               THEN /\ fy' = [fy EXCEPT ![w] = @ + 1]
                    /\ UNCHANGED fwpc
               ELSE /\ fwpc' = [fwpc EXCEPT ![w] = "fill"]
                    /\ UNCHANGED fy
            /\ UNCHANGED fpc
    /\ UNCHANGED <<fImg, fwg, fSpawned, fWrites, convVars, partVars, combVars,
                   seqVars, mainVars>>

\* Lines 233-236, one cell per step: r of the pixel (x, y) is converted and
\* stored to imageData[y][x]; after the last column y advances
ToFloatFill(w) ==
    /\ fpc \notin {"panic", "entry"}
    /\ fwpc[w] = "fill"
    /\ LET y == fy[w]
           x == fx[w]
       IN  IF fData[y].nil \/ x \notin DOMAIN fData[y].cells
           THEN /\ fpc' = "panic"
                /\ UNCHANGED <<fData, fWrites, fwpc, fy, fx>>
           ELSE /\ fData' = [fData EXCEPT ![y].cells[x] =
                                 ToFloat64(fImg.At[y][x])]
                /\ fWrites' = [fWrites EXCEPT ![y][x] = Append(@, w)]
                /\ IF x + 1 < fImg.Dx
                   THEN /\ fx' = [fx EXCEPT ![w] = x + 1]
                        /\ UNCHANGED <<fy, fwpc>>
                   ELSE /\ fy' = [fy EXCEPT ![w] = y + 1]
                        /\ fwpc' = [fwpc EXCEPT ![w] = "run"]
                        /\ UNCHANGED fx
                /\ UNCHANGED fpc
    /\ UNCHANGED <<fImg, fwg, fSpawned, fAllocs, convVars, partVars, combVars,
                   seqVars, mainVars>>

\* Line 229: the y loop is over and the deferred wg.Done() runs
ToFloatDone(w) ==
    /\ fpc \notin {"panic", "entry"}
    /\ fwpc[w] = "run"
    /\ fy[w] >= ToFloatEndRow(w, ToFloatRowsPerWorker, numWorkers, fImg.Dy)
    /\ fwg' = fwg - 1
    /\ fwpc' = [fwpc EXCEPT ![w] = "exit"]
    /\ UNCHANGED <<fImg, fpc, fData, fSpawned, fy, fx, fAllocs, fWrites,
                   convVars, partVars, combVars, seqVars, mainVars>>

\* Lines 241-243: the spawning loop is over, wg.Wait() passes once the
\* counter is 0, and imageData is returned
ToFloatReturn ==
    /\ fpc = "spawn"
    /\ fSpawned = numWorkers
    /\ fwg = 0
    /\ fpc' = "returned"
    /\ UNCHANGED <<fImg, fData, fwg, fSpawned, fwpc, fy, fx, fAllocs, fWrites,
                   convVars, partVars, combVars, seqVars, mainVars>>

NextToFloat ==
    \/ ToFloatEnter
    \/ ToFloatSpawn
    \/ \E w \in Workers : ToFloatAlloc(w)
    \/ \E w \in Workers : ToFloatFill(w)
    \/ \E w \in Workers : ToFloatDone(w)
    \/ ToFloatReturn

SpecToFloat == InitToFloat /\ [][NextToFloat]_vars

\* ------------------------------------------- either convolution, one call
\* A call of convolveParallel or a call of convolve, each with its own
\* arguments
InitConvolve == Init \/ InitSeq

NextConvolve == Next \/ NextSeq

SpecConvolve == InitConvolve /\ [][NextConvolve]_vars

\* ================================================================= claims
\* The row range the specification gives worker w of n over h rows:
\* floor(h/n) rows from w*floor(h/n), the last worker up to h.
ClaimRange(w, h, n) ==
    LET q == h \div n
    IN  IF w < n - 1
        THEN {r \in 0..(h - 1) : w * q <= r /\ r < w * q + q}
        ELSE {r \in 0..(h - 1) : (n - 1) * q <= r}

\* The workers recorded in a sequence of writers or owners
Members(sq) == {sq[k] : k \in 1..Len(sq)}

\* The convolution call has allocated its grids
Entered == pc \notin {"idle", "entry", "panic"}

\* Every worker goroutine has been started and has passed its send
AllWorkersFinished ==
    /\ Entered
    /\ spawned = numWorkers
    /\ \A w \in Workers : wpc[w] \in {"sent", "exit"}

\* C1: when convolveParallel returns for an image of at least one row and
\* one column, the grid it returns equals the sequential convolve's grid cell
\* for cell, whatever the worker count and the interleaving were.
C1_ParallelEqualsSequential ==
    (pc = "returned" /\ width >= 1) =>
        FloatGrid(ret) = convolve(FloatGrid(image), FloatGrid(kernel))

C1_Witness ==
    /\ pc = "returned"
    /\ height = 3 /\ width = 2 /\ numWorkers = 2
    /\ kernel = sobelX
    /\ \E i \in DOMAIN ret : \E j \in DOMAIN ret[i] : ret[i][j] # 0

\* C2: once every worker has taken its row range, every row of [0, H) is
\* owned by exactly one worker, and every range lies inside [0, H].
C2_PartitionCoverage ==
    /\ \A w \in 0..(pw - 1) :
          LET rpw == RowsPerWorker(pHeight, pWorkers)
          IN  /\ 0 <= StartRow(w, rpw)
              /\ StartRow(w, rpw) <= EndRow(w, rpw, pWorkers, pHeight)
              /\ EndRow(w, rpw, pWorkers, pHeight) <= pHeight
    /\ pw = pWorkers => \A r \in DOMAIN owners : Len(owners[r]) = 1

C2_Witness ==
    /\ pw = pWorkers
    /\ pHeight = 5 /\ pWorkers = 3
    /\ \A r \in DOMAIN owners : Len(owners[r]) = 1

\* C3: a worker stores only to result cells in rows of its own range, no
\* result cell is ever stored to by two different workers, and once all
\* workers have finished every result cell has been stored to exactly once.
C3_WriteDisjointness ==
    Entered =>
        /\ \A i \in DOMAIN writes : \A j \in DOMAIN writes[i] :
              /\ \A w \in Members(writes[i][j]) :
                    i \in ClaimRange(w, height, numWorkers)
              /\ Cardinality(Members(writes[i][j])) <= 1
        /\ AllWorkersFinished =>
              \A i \in DOMAIN writes : \A j \in DOMAIN writes[i] :
                  Len(writes[i][j]) = 1

C3_Witness ==
    /\ AllWorkersFinished
    /\ height = 3 /\ width = 2 /\ numWorkers = 2
    /\ \A i \in DOMAIN writes : \A j \in DOMAIN writes[i] :
          Len(writes[i][j]) = 1
    /\ pc # "returned"

\* C4: convolveParallel has returned only if every worker has stored all
\* its rows, sent its message and signalled completion (wg.Done).
C4_JoinBeforeRead ==
    pc = "returned" =>
        /\ spawned = numWorkers
        /\ wg = 0
        /\ \A w \in Workers :
              /\ wpc[w] = "exit"
              /\ wi[w] >= EndRow(w, rowsPerWorker, numWorkers, height)

C4_Witness ==
    /\ pc = "returned"
    /\ height = 3 /\ numWorkers = 3
    /\ \A w \in Workers : wpc[w] = "exit"

\* C5: worker w < N-1 owns exactly the floor(H/N) rows from w*floor(H/N),
\* and worker N-1 owns the rows from (N-1)*floor(H/N) up to H.
C5_PartitionSizes ==
    \A w \in 0..(pw - 1) :
        {r \in DOMAIN owners : w \in Members(owners[r])}
            = ClaimRange(w, pHeight, pWorkers)

C5_Witness ==
    /\ pw = pWorkers
    /\ pHeight = 7 /\ pWorkers = 3
    /\ {r \in DOMAIN owners : 2 \in Members(owners[r])} = {4, 5, 6}

\* C6: with more workers than rows the call does not panic, a worker whose
\* range is empty stores nothing, the call is never stuck before it returns,
\* and at the return every result cell has been stored to exactly once.
C6_MoreWorkersThanRows ==
    (numWorkers > height /\ height >= 1 /\ kHeight >= 1) =>
        /\ pc # "panic"
        /\ pc # "returned" => ENABLED Next
        /\ Entered =>
              \A w \in Workers :
                  ClaimRange(w, height, numWorkers) = {} =>
                      \A i \in DOMAIN writes : \A j \in DOMAIN writes[i] :
                          w \notin Members(writes[i][j])
        /\ pc = "returned" =>
              /\ \A i \in DOMAIN writes : \A j \in DOMAIN writes[i] :
                    Len(writes[i][j]) = 1
              /\ len(ret) = height

C6_Witness ==
    /\ pc = "returned"
    /\ height = 3 /\ width = 2 /\ numWorkers = 4
    /\ \A i \in DOMAIN writes : \A j \in DOMAIN writes[i] :
          writes[i][j] = <<3>>

\* C8: a convolution call given a kernel or an image with no rows or no
\* columns allocates nothing and returns no grid.
C8_FailFastInvalidDimensions ==
    (\/ len(image) = 0
     \/ len(kernel) = 0
     \/ len(image) > 0 /\ len(image[0]) = 0
     \/ len(kernel) > 0 /\ len(kernel[0]) = 0)
        => /\ pc \in {"entry", "panic"}
           /\ paddedImage = <<>>
           /\ resultHdr = <<>>

\* C10: the padded grid has (H + 2*(kH/2)) rows of (W + 2*(kW/2)) columns,
\* holds image(i,j) at (i + kH/2, j + kW/2) and 0 everywhere else; for a
\* 1x1 kernel it is the image itself.
C10_Padding ==
    Entered =>
        LET pH == len(kernel) \div 2
            pW == len(kernel[0]) \div 2
            H == len(image)
            W == len(image[0])
        IN  /\ DOMAIN paddedImage = 0..(H + 2 * pH - 1)
            /\ \A r \in DOMAIN paddedImage :
                  /\ DOMAIN paddedImage[r] = 0..(W + 2 * pW - 1)
                  /\ \A c \in DOMAIN paddedImage[r] :
                        paddedImage[r][c] =
                            IF /\ pH <= r /\ r < pH + H
                               /\ pW <= c /\ c < pW + W
                            THEN image[r - pH][c - pW]
                            ELSE 0
            /\ (len(kernel) = 1 /\ len(kernel[0]) = 1) => paddedImage = image

C10_Witness ==
    /\ pc = "spawn"
    /\ kernel = sobelY
    /\ height = 3 /\ width = 2
    /\ image[2][1] # 0
    /\ paddedImage[3][2] # 0

\* The two gradient grids do not have the same shape
ShapesDiffer ==
    \/ DOMAIN gradientX # DOMAIN gradientY
    \/ \E i \in DOMAIN gradientX \cap DOMAIN gradientY :
          DOMAIN gradientX[i] # DOMAIN gradientY[i]

\* C7: when the magnitude grid has min = max, combineAndNormalize returns
\* a grid whose every cell is the number 0: no cell is NaN or infinite.
C7_DegenerateRangeIsZero ==
    (cbpc = "returned" /\ minValue = maxValue) =>
        \A i \in DOMAIN edges : \A j \in DOMAIN edges[i] :
            edges[i][j] = Float(0)

\* C9: with gradient grids of different shapes combineAndNormalize neither
\* allocates its output nor returns a grid.
C9_MismatchedShapesRejected ==
    ShapesDiffer => (edges = <<>> /\ cbpc # "returned")


\* C20: every worker goroutine sends at most one message and it carries the
\* worker's own index; a worker that is past its send has sent exactly one;
\* resultCh is closed at most once and only after all N workers have sent;
\* the collector takes at most one message per index, and when
\* convolveParallel returns it has taken exactly one message for each of
\* the N indices.
C20_ChannelProtocol ==
    Entered =>
        /\ \A w \in Workers :
              /\ Len(sentBy[w]) <= 1
              /\ \A k \in DOMAIN sentBy[w] : sentBy[w][k] = w
              /\ wpc[w] \in {"sent", "exit"} => Len(sentBy[w]) = 1
              /\ received[w] <= Len(sentBy[w])
        /\ closeCount <= 1
        /\ closed <=> closeCount = 1
        /\ closed => \A w \in Workers : Len(sentBy[w]) = 1
        /\ pc = "returned" =>
              /\ closeCount = 1
              /\ \A w \in Workers : received[w] = 1

C20_Witness ==
    /\ pc = "returned"
    /\ numWorkers = 4 /\ height = 3
    /\ closeCount = 1
    /\ \A w \in Workers : received[w] = 1 /\ sentBy[w] = <<w>>


\* The zero-padded grid P of the contract: img(r - kH/2, c - kW/2) where that
\* is a cell of img, 0 elsewhere
ClaimP(img, krn, r, c) ==
    LET r0 == r - (len(krn) \div 2)
        c0 == c - (len(krn[0]) \div 2)
    IN  IF r0 \in DOMAIN img /\ c0 \in DOMAIN img[r0] THEN img[r0][c0] ELSE 0

\* The sum of f over the finite set S
RECURSIVE ClaimSigma(_, _)
ClaimSigma(f, S) ==
    IF S = {} THEN 0
    ELSE LET x == CHOOSE y \in S : TRUE
         IN  f[x] + ClaimSigma(f, S \ {x})

\* The contract's value of output cell (i,j): the sum over a, b of
\* P(i+a, j+b) * K(a,b)
ClaimCell(img, krn, i, j) ==
    LET AB == (0..(len(krn) - 1)) \X (0..(len(krn[0]) - 1))
    IN  ClaimSigma([ab \in AB |->
                      ClaimP(img, krn, i + ab[1], j + ab[2]) * krn[ab[1]][ab[2]]],
                   AB)

\* C11: every cell (i,j) of the grid convolveParallel returns, and of the
\* grid convolve returns for the same arguments, is the sum over a in
\* 0..kH-1, b in 0..kW-1 of P(i+a, j+b) * K(a,b) with P the zero-padded
\* image: the kernel is not flipped and the sum is neither clamped nor
\* rounded.
C11_CrossCorrelation ==
    pc = "returned" =>
        /\ DOMAIN ret = 0..(height - 1)
        /\ \A i \in DOMAIN ret :
              /\ DOMAIN ret[i] = 0..(width - 1)
              /\ \A j \in DOMAIN ret[i] :
                    /\ ret[i][j] = ClaimCell(image, kernel, i, j)
                    /\ convolve(FloatGrid(image), FloatGrid(kernel))[i][j] =
                           Float(ClaimCell(image, kernel, i, j))

C11_Witness ==
    /\ pc = "returned"
    /\ kernel = sobelY
    /\ height = 3 /\ width = 2
    /\ \E i \in DOMAIN ret : \E j \in DOMAIN ret[i] : ret[i][j] < 0
    /\ \E i \in DOMAIN ret : \E j \in DOMAIN ret[i] : ret[i][j] > 1


\* C12: no step of convolveParallel changes the caller's image or the
\* kernel, so both are the same after the call as before it; and from the
\* moment the workers are spawned until the return no step of a worker, of
\* the closer or of the collector changes a cell of the padded image.
C12_ReadOnlySharing ==
    [][/\ image' = image
       /\ kernel' = kernel
       /\ (Entered => paddedImage' = paddedImage)]_vars

C12_Witness ==
    /\ pc = "returned"
    /\ height = 3 /\ width = 2 /\ numWorkers = 2
    /\ kernel = sobelY
    /\ paddedImage = PadImage(image, width, padHeight, padWidth)
    /\ \E i \in DOMAIN image : \E j \in DOMAIN image[i] : image[i][j] # 0
    /\ \E i \in DOMAIN ret : \E j \in DOMAIN ret[i] : ret[i][j] # 0


\* C18: every collector step copy(result[Index*rowsPerWorker:], Result)
\* completes and leaves the row headers, and so every cell of the result
\* grid, as they were; with one worker per row the per-row copy
\* copy(result[Index], Result[0]) leaves every sample as it was; and the
\* grid returned holds in every cell the kernel sum of that cell, whatever
\* the order in which the messages arrived.
C18_DeterministicReassembly ==
    [][/\ (pc = "copy" /\ pc' # "copy") =>
             /\ pc' = "recv"
             /\ resultHdr' = resultHdr
             /\ ResultGrid' = ResultGrid
             /\ numWorkers = height =>
                   CopyRow(rowData, resultHdr, convResult.Index,
                           convResult.lo) = rowData
       /\ pc' = "returned" =>
             ret' = [i \in 0..(height - 1) |-> [j \in 0..(width - 1) |->
                        CellSum(paddedImage, kernel, kWidth, i, j)]]]_vars

C18_Witness ==
    /\ pc = "recv"
    /\ height = 3 /\ width = 2 /\ numWorkers = 2
    /\ received[1] = 1
    /\ convResult = ConvolveResult(1, 1, 3)
    /\ \E j \in DOMAIN ResultGrid[2] : ResultGrid[2][j] # 0
    /\ ResultGrid[1] # ResultGrid[2]
    /\ resultCh # <<>>


\* The rows of result that the collector's copy of the received message
\* stores to
CopiedRows ==
    LET startRow == CollectStartRow(convResult.Index, rowsPerWorker)
    IN  {r \in 0..(height - 1) :
            /\ startRow <= r
            /\ r < startRow + Min2(height - startRow,
                                   convResult.hi - convResult.lo)}

\* C19: when the collector is about to copy a received message, the worker
\* that sent it is past its send and has stored every cell of the rows the
\* copy stores to, those rows are rows of that worker's range, and no
\* worker that is still running has any of them in its own range.
C19_NoCollectorRace ==
    pc = "copy" =>
        /\ convResult.Index \in Workers
        /\ wpc[convResult.Index] \in {"sent", "exit"}
        /\ \A r \in CopiedRows :
              /\ r \in ClaimRange(convResult.Index, height, numWorkers)
              /\ \A j \in DOMAIN writes[resultHdr[r]] :
                    writes[resultHdr[r]][j] = <<convResult.Index>>
        /\ \A w \in Workers :
              wpc[w] \in {"none", "run"} =>
                  \A r \in CopiedRows :
                      ~(/\ StartRow(w, rowsPerWorker) <= r
                        /\ r < EndRow(w, rowsPerWorker, numWorkers, height))

C19_Witness ==
    /\ pc = "copy"
    /\ height = 3 /\ width = 2 /\ numWorkers = 2
    /\ CopiedRows = {0}
    /\ wpc[1] = "run"
    /\ wi[1] = 1 /\ wj[1] = 1


\* C17: for an image of at least one row and one column, a kernel of at
\* least one row and one column and any worker count, convolveParallel
\* eventually returns, with every worker past its send and exited, the
\* channel closed by the closer and the collector loop ended.
C17_Termination ==
    (/\ len(image) >= 1 /\ len(image[0]) >= 1
     /\ len(kernel) >= 1 /\ len(kernel[0]) >= 1)
        => <>(/\ pc = "returned"
              /\ \A w \in Workers : wpc[w] = "exit"
              /\ cpc = "exit"
              /\ closed
              /\ resultCh = <<>>)

C17_Witness ==
    /\ pc = "returned"
    /\ height = 3 /\ width = 2 /\ numWorkers = 4
    /\ \A w \in Workers : wpc[w] = "exit"
    /\ cpc = "exit"
    /\ closed


\* The magnitude sqrt(Gx(i,j)^2 + Gy(i,j)^2) of cell (i,j)
ClaimMagnitude(i, j) ==
    Sqrt(FAdd(FMul(Float(gradientX[i][j]), Float(gradientX[i][j])),
              FMul(Float(gradientY[i][j]), Float(gradientY[i][j]))))

\* C13: when the magnitude grid has min < max, every cell of the grid
\* combineAndNormalize returns is a number of [0, 255], every cell whose
\* magnitude is the minimum is 0 and every cell whose magnitude is the
\* maximum is 255.
C13_NormalizationRange ==
    (cbpc = "returned" /\ FLess(minValue, maxValue)) =>
        \A i \in DOMAIN edges : \A j \in DOMAIN edges[i] :
            /\ edges[i][j].kind = "num"
            /\ ~FLess(edges[i][j], Float(0))
            /\ ~FLess(Float(MaxGray), edges[i][j])
            /\ ClaimMagnitude(i, j) = minValue => edges[i][j] = Float(0)
            /\ ClaimMagnitude(i, j) = maxValue => edges[i][j] = Float(MaxGray)


\* The integer an integer-valued float64 holds
ClaimInt(f) == IF f.e >= 0 THEN f.m * 2^(f.e) ELSE f.m \div 2^(-f.e)

\* The sum of all the weights of a kernel of integer weights
ClaimKernelTotal(krn) ==
    LET AB == UNION {{<<a, b>> : b \in DOMAIN krn[a]} : a \in DOMAIN krn}
    IN  ClaimSigma([ab \in AB |-> ClaimInt(krn[ab[1]][ab[2]])], AB)

\* Cell (i,j)'s kernel window lies inside the image: it touches no padding
ClaimInterior(img, krn, i, j) ==
    /\ i - (len(krn) \div 2) >= 0
    /\ i - (len(krn) \div 2) + len(krn) - 1 <= len(img) - 1
    /\ j - (len(krn[0]) \div 2) >= 0
    /\ j - (len(krn[0]) \div 2) + len(krn[0]) - 1 <= len(img[0]) - 1

\* The image holds the same value in every cell
ClaimUniform(img) ==
    \E c \in SeqSamples : img = Uniform(len(img), len(img[0]), c)

\* C14 as stated: convolve of a grid whose cells all hold the same value
\* with any kernel whose weights sum to 0 returns 0 in every cell whose
\* kernel window lies entirely inside the image.
C14_UniformInteriorZero ==
    (/\ spc = "returned"
     /\ ClaimUniform(sImage)
     /\ ClaimKernelTotal(sKernel) = 0)
        => \A i \in DOMAIN sResult : \A j \in DOMAIN sResult[i] :
              ClaimInterior(sImage, sKernel, i, j) => sResult[i][j] = Float(0)

\* The value is 0 or a power of two: its products with small integer
\* weights, and their sums, are exact
ClaimPowerOfTwo(c) == c.m = 0 \/ Abs(c.m) = 2^(Precision - 1)

\* C14, amended: convolve of a grid whose cells all hold the same value c
\* returns 0 in every cell whose kernel window lies entirely inside the
\* image when the kernel is Sobel X, and when the kernel is any of the
\* kernels whose weights sum to 0 (Sobel Y among them) and c is 0 or a
\* power of two; for other c the rounded sum need not be 0.
C14_ExactUniformInteriorZero ==
    (/\ spc = "returned"
     /\ ClaimUniform(sImage)
     /\ ClaimKernelTotal(sKernel) = 0)
        => \A i \in DOMAIN sResult : \A j \in DOMAIN sResult[i] :
              (/\ ClaimInterior(sImage, sKernel, i, j)
               /\ \/ sKernel = FloatGrid(sobelX)
                  \/ ClaimPowerOfTwo(sImage[i][j]))
                 => sResult[i][j] = Float(0)

C14_Witness ==
    /\ spc = "returned"
    /\ sImage = Uniform(5, 5, FDiv(Float(1), Float(2)))
    /\ sKernel = FloatGrid(sobelY)
    /\ \A i \in 1..3 : \A j \in 1..3 : sResult[i][j] = Float(0)
    /\ sResult[0][0] # Float(0)

\* The 3x3 impulse [[0,0,0],[0,1,0],[0,0,0]]
Impulse3 == Impulse(3, 3, 1, 1)

\* C16: convolve of the 3x3 impulse with Sobel X returns 0 at (1,1), 2 at
\* (1,0) and -2 at (1,2); with Sobel Y it returns 0 at (1,1), 2 at (0,1)
\* and -2 at (2,1).
C16_ImpulseFixture ==
    (spc = "returned" /\ sImage = Impulse3) =>
        /\ sKernel = FloatGrid(sobelX) =>
              /\ sResult[1][1] = Float(0)
              /\ sResult[1][0] = Float(2)
              /\ sResult[1][2] = Float(-2)
        /\ sKernel = FloatGrid(sobelY) =>
              /\ sResult[1][1] = Float(0)
              /\ sResult[0][1] = Float(2)
              /\ sResult[2][1] = Float(-2)

C16_Witness ==
    /\ spc = "returned"
    /\ sImage = Impulse3
    /\ sKernel = FloatGrid(sobelY)
    /\ sResult[0][1] = Float(2) /\ sResult[2][1] = Float(-2)


\* The uniform 5x5 grid of 0.5 (sample 1 stands for 1/2)
Half5x5 == Uniform(5, 5, 1)

\* Rows and columns 1..3 of a 5x5 grid
Inner3 == (1..3) \X (1..3)

\* C15 as stated: for the uniform 5x5 grid of 0.5 the Sobel-X and Sobel-Y
\* convolutions are 0 on rows/columns 1..3, the magnitude is 0 in all 25
\* cells and the normalized output is 0 in all 25 cells.
C15_Uniform5x5AllZero ==
    (mpc = "edges" /\ imageData = Half5x5) =>
        /\ \A c \in Inner3 :
              gradientX[c[1]][c[2]] = 0 /\ gradientY[c[1]][c[2]] = 0
        /\ \A i \in 0..4 : \A j \in 0..4 :
              /\ ClaimMagnitude(i, j) = Float(0)
              /\ edges[i][j] = Float(0)

\* C15, amended: for the uniform 5x5 grid of 0.5 the Sobel-X and Sobel-Y
\* convolutions are 0 on rows/columns 1..3; the magnitude and the
\* normalized output are 0 in those 9 cells, and in each of the 16 border
\* cells, whose kernel windows reach the zero padding, the magnitude is
\* not 0 and the normalized output is a number that is not 0.
C15_Uniform5x5InteriorZero ==
    (mpc = "edges" /\ imageData = Half5x5) =>
        \A i \in 0..4 : \A j \in 0..4 :
            IF <<i, j>> \in Inner3
            THEN /\ gradientX[i][j] = 0
                 /\ gradientY[i][j] = 0
                 /\ ClaimMagnitude(i, j) = Float(0)
                 /\ edges[i][j] = Float(0)
            ELSE /\ ClaimMagnitude(i, j) # Float(0)
                 /\ edges[i][j].kind = "num"
                 /\ edges[i][j] # Float(0)

C15_Witness ==
    /\ mpc = "edges"
    /\ imageData = Half5x5
    /\ numWorkers = 2
    /\ gradientX[0][0] = 3 /\ gradientY[0][0] = 3
    /\ edges[2][2] = Float(0)
    /\ FLess(Float(0), edges[0][0])

\* The reads paddedImage[i+ii][j+jj] of the cells 0 <= i < h, 0 <= j < w
\* with 0 <= ii < kh, 0 <= jj < kw, as index pairs
ClaimReads(h, w, kh, kw) ==
    {<<i + ii, j + jj>> : <<i, j, ii, jj>> \in
        (0..(h - 1)) \X (0..(w - 1)) \X (0..(kh - 1)) \X (0..(kw - 1))}

\* The grid p has exactly rows x cols cells
ClaimShape(p, rows, cols) ==
    /\ DOMAIN p = 0..(rows - 1)
    /\ \A r \in DOMAIN p : DOMAIN p[r] = 0..(cols - 1)

\* C21: for an image of H >= 1 rows and W >= 1 columns and a kernel of
\* kH >= 1 rows and kW >= 1 columns, odd or even, the padded grid built by
\* convolveParallel and by convolve has (H + 2*(kH/2)) x (W + 2*(kW/2))
\* cells, every read paddedImage[i+ii][j+jj] with 0 <= i < H, 0 <= j < W,
\* 0 <= ii < kH, 0 <= jj < kW falls inside it, and neither the workers nor
\* the sequential loop panic on an index.
C21_InBoundsReads ==
    /\ (/\ pc \notin {"idle", "entry"}
        /\ len(image) >= 1 /\ len(image[0]) >= 1
        /\ len(kernel) >= 1 /\ len(kernel[0]) >= 1)
       => /\ pc # "panic"
          /\ ClaimShape(paddedImage, height + 2 * (kHeight \div 2),
                        width + 2 * (kWidth \div 2))
          /\ \A rd \in ClaimReads(height, width, kHeight, kWidth) :
                /\ rd[1] \in DOMAIN paddedImage
                /\ rd[2] \in DOMAIN paddedImage[rd[1]]
          /\ \A w \in Workers :
                (wpc[w] = "run" /\ wi[w] < EndRow(w, rowsPerWorker,
                                                  numWorkers, height))
                => ~ReadOutOfRange(paddedImage, kHeight, kWidth, wi[w], wj[w])
    /\ (/\ spc \notin {"idle", "entry"}
        /\ len(sImage) >= 1 /\ len(sImage[0]) >= 1
        /\ len(sKernel) >= 1 /\ len(sKernel[0]) >= 1)
       => /\ spc # "panic"
          /\ ClaimShape(sPadded, len(sImage) + 2 * (len(sKernel) \div 2),
                        len(sImage[0]) + 2 * (len(sKernel[0]) \div 2))
          /\ \A rd \in ClaimReads(len(sImage), len(sImage[0]),
                                   len(sKernel), len(sKernel[0])) :
                /\ rd[1] \in DOMAIN sPadded
                /\ rd[2] \in DOMAIN sPadded[rd[1]]

\* A worker has stored the last cell of the last row under the even 2x2
\* kernel, whose window there ends at paddedImage[height][width]
C21_Witness ==
    /\ pc = "returned"
    /\ kHeight = 2 /\ kWidth = 2
    /\ height = MaxH /\ width = MaxW
    /\ numWorkers > height
    /\ len(paddedImage) = height + 2
    /\ writes[resultHdr[height - 1]][width - 1] # <<>>

\* C22: when imageToFloat64Array returns for N >= 1 workers and an image of
\* H >= 1 rows, every worker has finished and the WaitGroup is at 0; the
\* returned grid has H rows, each allocated exactly once (none nil), of
\* length width, every cell stored exactly once by the worker that
\* allocated its row, which is the worker whose row range holds the row,
\* and every cell holds float64(r) / 65535.0 of its pixel.
C22_ToFloatRowsFilledOnce ==
    (fpc = "returned" /\ numWorkers >= 1 /\ fImg.Dy >= 1) =>
        /\ fwg = 0
        /\ \A w \in Workers : fwpc[w] = "exit"
        /\ DOMAIN fData = 0..(fImg.Dy - 1)
        /\ \A y \in 0..(fImg.Dy - 1) :
              /\ ~fData[y].nil
              /\ DOMAIN fData[y].cells = 0..(fImg.Dx - 1)
              /\ Len(fAllocs[y]) = 1
              /\ y \in ClaimRange(fAllocs[y][1], fImg.Dy, numWorkers)
              /\ \A x \in 0..(fImg.Dx - 1) :
                    /\ fWrites[y][x] = fAllocs[y]
                    /\ fData[y].cells[x] = ToFloat64(fImg.At[y][x])

\* Returned with more workers than rows and a worker count that does not
\* divide the height: the last worker filled every row, one pixel at full
\* scale
C22_Witness ==
    /\ fpc = "returned"
    /\ fImg.Dy = MaxPixH /\ fImg.Dx = MaxPixW
    /\ numWorkers > fImg.Dy
    /\ fImg.Dy % numWorkers # 0
    /\ \A y \in 0..(fImg.Dy - 1) : fAllocs[y] = <<numWorkers - 1>>
    /\ fData[0].cells[0] = Float(1)
    /\ fData[MaxPixH - 1].cells[MaxPixW - 1] = Float(0)

=============================================================================
